---- MODULE Spec2Model ----
(***************************************************************************)
(* State-machine model of src/src/uff_engine.cpp: the construction of a    *)
(* uff_runner_impl (create_engine, createBuffers_) and its call operator   *)
(* (copy input from host / context->execute / copy output to host).        *)
(*                                                                         *)
(* Conventions                                                             *)
(*  - C++ indices are 0-based, TLA+ sequences 1-based: binding i of the    *)
(*    code is position i+1 here, row r of a buffer is position r+1.        *)
(*  - A row of a [batch_size, data_size] buffer is one value: a Data value *)
(*    or Indeterminate (bytes nobody wrote since cudaMalloc, or bytes read *)
(*    through a host pointer the caller never supplied).                   *)
(*  - assert() is compiled in: a failed assert aborts the process.         *)
(***************************************************************************)
EXTENDS Integers, Sequences, FiniteSets, TLC

VARIABLES
    model,            \* what the UFF parser / builder will do with model_file
    max_batch_size,   \* uff_runner_impl::max_batch_size
    pc,               \* position of the (single) thread of control
    engine_,          \* uff_runner_impl::engine_ (NullEngine or its bindings)
    buffers_,         \* uff_runner_impl::buffers_ (pointer and shape of each)
    dmem,             \* device memory behind each buffer, row by row
    nextAddr,         \* the device allocator's next free address
    log,              \* gLogger's messages
    exit_status,      \* <<status>> once exit(status) was called, else <<>>
    batch_size,       \* operator(): parameter batch_size
    inputs,           \* operator(): parameter inputs (host buffers)
    outputs,          \* operator(): host buffers behind parameter outputs
    i,                \* loop variable of the current ttl::range loop
    idx,              \* int idx of the copy loops
    live,             \* number of live execution contexts
    calls,            \* history: copies and context calls made by this invoke
    exec_ok,          \* history: what context->execute returned
    touched,          \* history: device rows read or written by this invoke
    ub,               \* history: undefined behaviour this invoke ran into
    ref               \* history: <<one earlier clean invoke>>, or <<>>

vars == <<model, max_batch_size, pc, engine_, buffers_, dmem, nextAddr, log,
          exit_status, batch_size, inputs, outputs, i, idx, live,
          calls, exec_ok, touched, ub, ref>>

(***************************************************************************)
(* Bounds of the model.                                                    *)
(***************************************************************************)
MaxBatch == 2
MaxBindings == 2

\* Content of one row of host or device memory.
Data == {1, 2}
Indeterminate == 0

\* The binding shapes and element types the engines of the model draw from.
BindingTypes ==
    << [dims |-> <<2, 3>>, dtype |-> "kFLOAT"],
       [dims |-> <<3>>,    dtype |-> "kHALF"],
       [dims |-> <<>>,     dtype |-> "kINT8"],
       [dims |-> <<3>>,    dtype |-> "kINT32"] >>

TypeAt(k) == BindingTypes[(k % Len(BindingTypes)) + 1]

\* The engines a build may return: every direction of every binding, the
\* types rotating through BindingTypes from any starting point.
EnginesOfLen(n) ==
    { [k \in 1..n |-> [isInput |-> dirs[k],
                       dims    |-> TypeAt(k + s).dims,
                       dtype   |-> TypeAt(k + s).dtype]] :
          dirs \in [1..n -> BOOLEAN], s \in 1..Len(BindingTypes) }

Engines == UNION { EnginesOfLen(n) : n \in 1..MaxBindings }

\* engine_ holding nullptr: an engine has at least one binding.
NullEngine == <<>>

\* What the parser and the builder do with the model file.
Models ==
    { [parses |-> FALSE, builds |-> FALSE, bindings |-> NullEngine],
      [parses |-> TRUE,  builds |-> FALSE, bindings |-> NullEngine] }
    \cup { [parses |-> TRUE, builds |-> TRUE, bindings |-> e] : e \in Engines }

(***************************************************************************)
(* Pure helpers of the source.                                             *)
(***************************************************************************)
RECURSIVE volume(_)
volume(d) == IF d = <<>> THEN 1 ELSE d[1] * volume(Tail(d))

\* (mutant) the switch has a default case: every type is let through.
SupportedDataType_Any(t) == TRUE

\* The cases of elementSize's switch; any other type falls through to assert(0).
SupportedDataType(t) == t \in {"kFLOAT", "kHALF", "kINT8"}

elementSize(t) ==
    CASE t = "kFLOAT" -> 4
      [] t = "kHALF"  -> 2
      [] t = "kINT8"  -> 1
      [] OTHER        -> 0

\* ttl::cuda_tensor<char, 2>(batch_size, data_size) at device address addr.
cuda_buffer_t(addr, rows, cols) == [data |-> addr, shape |-> <<rows, cols>>]

\* (mutant) the row size is the element count, not the byte count.
NewBuffer_NoElementSize(addr, batch, b) ==
    cuda_buffer_t(addr, batch, volume(b.dims))

\* The tensor createBuffers_ emplaces for binding b.
NewBuffer(addr, batch, b) ==
    cuda_buffer_t(addr, batch, volume(b.dims) * elementSize(b.dtype))

Capacity(buf) == buf.shape[1] * buf.shape[2]

bindingIsInput(e, k) == e[k].isInput

NbInputs(e) == Cardinality({k \in 1..Len(e) : bindingIsInput(e, k)})
NbOutputs(e) == Cardinality({k \in 1..Len(e) : ~bindingIsInput(e, k)})

\* Position of the j-th input (output) binding, in binding order.
RECURSIVE NthBinding(_, _, _, _)
NthBinding(e, inp, j, from) ==
    IF from > Len(e) THEN 0
    ELSE IF bindingIsInput(e, from) = inp
         THEN IF j = 1 THEN from ELSE NthBinding(e, inp, j - 1, from + 1)
         ELSE NthBinding(e, inp, j, from + 1)

\* loadModelAndCreateEngine: the engine it returns and what it logs.
loadModelAndCreateEngine(m) ==
    IF ~m.parses
    THEN [engine |-> NullEngine,
          log |-> <<"Failed to created engine of data type: ">>]
    ELSE [engine |-> IF m.builds THEN m.bindings ELSE NullEngine,
          log |-> <<>>]

\* (mutant) the check for nullptr is missing.
EngineIsNull_Never(e) == FALSE

\* nullptr == engine
EngineIsNull(e) == e = NullEngine

\* (mutant) the assert is off by one.
BatchSizeAssert_OffByOne(b, m) == b <= m + 1

\* assert(batch_size <= max_batch_size)
BatchSizeAssert(b, m) == b <= m

\* Rows of buffers_[i].slice(0, batch_size): the int converts to the unsigned
\* 32-bit dimension type of the tensor shape, b mod 2^32. For a negative b
\* that is at least 2^31, more than any integer of the model: DimHuge stands
\* for it.
DimHuge == 2147483647

\* (mutant) the slice is one row too long.
SliceRows_OneMore(b) == IF b < 0 THEN DimHuge ELSE b + 1

SliceRows(b) == IF b < 0 THEN DimHuge ELSE b

\* (mutant) idx is never incremented.
NextIdx_Stuck(n) == n

\* idx++
NextIdx(n) == n + 1

\* inputs[idx], outputs[idx]: the list's element at 0-based index n.
HostPtr(list, n) == list[n + 1]

\* (mutant) the copy stops one row short.
CopyToDevice_ShortByOne(dev, host, n) ==
    [r \in 1..Len(dev) |->
        IF r <= n - 1
        THEN IF r <= Len(host) THEN host[r] ELSE Indeterminate
        ELSE dev[r]]

\* ttl::copy(buffer, input): the first n rows of the device slice receive the
\* rows of the host view; rows the host buffer does not hold are indeterminate.
CopyToDevice(dev, host, n) ==
    [r \in 1..Len(dev) |->
        IF r <= n
        THEN IF r <= Len(host) THEN host[r] ELSE Indeterminate
        ELSE dev[r]]

\* ttl::copy(output, ttl::view(buffer)): the first n rows of the host buffer
\* receive the rows of the device slice.
CopyToHost(host, dev, n) ==
    [r \in 1..Len(host) |->
        IF r <= n
        THEN IF r <= Len(dev) THEN dev[r] ELSE Indeterminate
        ELSE host[r]]

\* A deterministic backend: row r of output binding k is a function of row r
\* of every input binding (and of k).
RECURSIVE SumRow(_, _, _, _)
SumRow(e, mem, r, k) ==
    IF k > Len(e) THEN 0
    ELSE (IF bindingIsInput(e, k) THEN mem[k][r] ELSE 0) + SumRow(e, mem, r, k + 1)

EngineCompute(e, mem, r, k) ==
    IF \E j \in 1..Len(e) : bindingIsInput(e, j) /\ mem[j][r] = Indeterminate
    THEN Indeterminate
    ELSE ((SumRow(e, mem, r, 1) + k) % 2) + 1

\* context->execute(batch_size, bindings) when it succeeds: the backend reads
\* rows [0, batch) of the input bindings and writes rows [0, batch) of the
\* output bindings.
EngineExecute(e, mem, batch) ==
    [k \in 1..Len(mem) |->
        [r \in 1..Len(mem[k]) |->
            IF ~bindingIsInput(e, k) /\ r <= batch
            THEN EngineCompute(e, mem, r, k)
            ELSE mem[k][r]]]

\* (mutant) the context is not destroyed.
destroy_Leak(n) == n

\* context->destroy(): the number of live execution contexts afterwards.
destroy(n) == n - 1

(***************************************************************************)
(* Inputs of an invoke.                                                    *)
(***************************************************************************)
BatchSizes == (0 - 1)..(max_batch_size + 1)

HostRows(b) == IF b > 0 THEN b ELSE 0

\* The host input buffers of an invoke: buffer j of an invoke with pattern t
\* holds, in row r, a value that differs from row to row, from buffer to
\* buffer and from pattern to pattern.
Patterns == {0, 1}

HostBuffers(n, b, t) ==
    [j \in 1..n |-> [r \in 1..HostRows(b) |-> ((t + j + r) % 2) + 1]]

\* The pointer lists a caller may pass to an engine with nin input and nout
\* output bindings: the lengths of inputs and outputs, right or one short.
PtrCounts(nin, nout) ==
    { c \in { <<nin, nout>>, <<nin - 1, nout>>, <<nin, nout - 1>> } :
          c[1] >= 0 /\ c[2] >= 0 }

NoCalls == [h2d |-> 0, create |-> 0, execute |-> 0, destroy |-> 0, d2h |-> 0]

(***************************************************************************)
(* Initial state: before the constructor runs.                             *)
(***************************************************************************)
Init ==
    /\ model \in Models
    /\ max_batch_size \in 1..MaxBatch
    /\ pc = "create_engine"
    /\ engine_ = NullEngine
    /\ buffers_ = <<>>
    /\ dmem = <<>>
    /\ nextAddr = 1
    /\ log = <<>>
    /\ exit_status = <<>>
    /\ batch_size = 0
    /\ inputs = <<>>
    /\ outputs = <<>>
    /\ i = 1
    /\ idx = 0
    /\ live = 0
    /\ calls = NoCalls
    /\ exec_ok = FALSE
    /\ touched = {}
    /\ ub = {}
    /\ ref = <<>>

invokeVars == <<batch_size, inputs, outputs, calls, exec_ok, touched, ub>>

(***************************************************************************)
(* Construction.                                                           *)
(***************************************************************************)
\* create_engine (called from the member initialiser list, before buffers_
\* exists): exit(1) when loadModelAndCreateEngine returns nullptr.
create_engine ==
    /\ pc = "create_engine"
    /\ LET r == loadModelAndCreateEngine(model) IN
       IF EngineIsNull(r.engine)
       THEN /\ log' = log \o r.log \o <<"Failed to created engine">>
            /\ exit_status' = <<1>>
            /\ pc' = "exit"
            /\ UNCHANGED <<engine_, i>>
       ELSE /\ log' = log \o r.log
            /\ engine_' = r.engine
            /\ pc' = "createBuffers_"
            /\ i' = 1
            /\ UNCHANGED exit_status
    /\ UNCHANGED <<model, max_batch_size, buffers_, dmem, nextAddr, idx, live,
                   invokeVars, ref>>

\* One iteration of createBuffers_'s loop over the bindings.
createBuffers_ ==
    /\ pc = "createBuffers_"
    /\ i <= Len(engine_)
    /\ LET b == engine_[i]
           t == NewBuffer(nextAddr, max_batch_size, b)
       IN  IF ~SupportedDataType(b.dtype)
           THEN /\ pc' = "abort:elementSize"
                /\ UNCHANGED <<buffers_, dmem, nextAddr, i>>
           ELSE /\ buffers_' = Append(buffers_, t)
                /\ dmem' = Append(dmem, [r \in 1..t.shape[1] |-> Indeterminate])
                /\ nextAddr' = nextAddr + Capacity(t)
                /\ i' = i + 1
                /\ pc' = pc
    /\ UNCHANGED <<model, max_batch_size, engine_, log, exit_status, idx, live,
                   invokeVars, ref>>

\* The constructor returns: the Runner is handed to the caller.
ctor_return ==
    /\ pc = "createBuffers_"
    /\ i > Len(engine_)
    /\ pc' = "idle"
    /\ UNCHANGED <<model, max_batch_size, engine_, buffers_, dmem, nextAddr, log,
                   exit_status, i, idx, live, invokeVars, ref>>

(***************************************************************************)
(* operator()                                                              *)
(***************************************************************************)
\* Entry of operator(): the caller's arguments and the assert on batch_size.
call ==
    /\ pc \in {"idle", "returned"}
    /\ \E b \in BatchSizes, t \in Patterns,
          c \in PtrCounts(NbInputs(engine_), NbOutputs(engine_)) :
            /\ batch_size' = b
            /\ inputs' = HostBuffers(c[1], b, t)
            /\ outputs' = [k \in 1..c[2] |-> [r \in 1..HostRows(b) |-> Indeterminate]]
            /\ pc' = IF BatchSizeAssert(b, max_batch_size)
                     THEN "copy_in" ELSE "abort:batch_size"
    /\ i' = 1
    /\ idx' = 0
    /\ calls' = NoCalls
    /\ exec_ok' = FALSE
    /\ touched' = {}
    /\ ub' = {}
    /\ UNCHANGED <<model, max_batch_size, engine_, buffers_, dmem, nextAddr, log,
                   exit_status, live, ref>>

\* The undefined behaviour of one copy: indexing the pointer list past its
\* end, and a slice of more rows than the buffer has.
CopyUB(list, n, rows) ==
    (IF idx >= Len(list) THEN {"pointer list indexed past its end"} ELSE {})
    \cup (IF n > rows THEN {"slice past the end of the buffer"} ELSE {})

\* After undefined behaviour the process either dies or carries on.
Outcomes(u, next) == IF u = {} THEN {next} ELSE {next, "crash"}

RowsTouched(k, n, rows) == {<<k, r>> : r \in 1..(IF n < rows THEN n ELSE rows)}

\* One iteration of the "copy input from host" loop.
copy_input_from_host ==
    /\ pc = "copy_in"
    /\ i <= Len(buffers_)
    /\ IF bindingIsInput(engine_, i)
       THEN LET n == SliceRows(batch_size)
                rows == buffers_[i].shape[1]
                u == CopyUB(inputs, n, rows)
                host == IF idx < Len(inputs) THEN HostPtr(inputs, idx) ELSE <<>>
            IN  /\ dmem' = [dmem EXCEPT ![i] = CopyToDevice(@, host, n)]
                /\ touched' = touched \cup RowsTouched(i, n, rows)
                /\ ub' = ub \cup u
                /\ idx' = NextIdx(idx)
                /\ calls' = [calls EXCEPT !.h2d = @ + 1]
                /\ pc' \in Outcomes(u, "copy_in")
       ELSE UNCHANGED <<dmem, touched, ub, idx, calls, pc>>
    /\ i' = i + 1
    /\ UNCHANGED <<model, max_batch_size, engine_, buffers_, nextAddr, log,
                   exit_status, batch_size, inputs, outputs, live, exec_ok,
                   ref>>

\* engine_->createExecutionContext()
createExecutionContext ==
    /\ pc = "copy_in"
    /\ i > Len(buffers_)
    /\ live' = live + 1
    /\ calls' = [calls EXCEPT !.create = @ + 1]
    /\ pc' = "execute"
    /\ UNCHANGED <<model, max_batch_size, engine_, buffers_, dmem, nextAddr, log,
                   exit_status, batch_size, inputs, outputs, i, idx, exec_ok,
                   touched, ub, ref>>

\* context->execute(batch_size, buffer_ptrs_.data()); its result is ignored.
execute ==
    /\ pc = "execute"
    /\ \E ok \in BOOLEAN :
         /\ exec_ok' = ok
         /\ dmem' = IF ok THEN EngineExecute(engine_, dmem, batch_size) ELSE dmem
    /\ touched' = touched \cup
           UNION { RowsTouched(k, batch_size, buffers_[k].shape[1]) :
                       k \in 1..Len(buffers_) }
    /\ calls' = [calls EXCEPT !.execute = @ + 1]
    /\ pc' = "destroy"
    /\ UNCHANGED <<model, max_batch_size, engine_, buffers_, nextAddr, log,
                   exit_status, batch_size, inputs, outputs, i, idx, live,
                   ub, ref>>

\* context->destroy()
context_destroy ==
    /\ pc = "destroy"
    /\ live' = destroy(live)
    /\ calls' = [calls EXCEPT !.destroy = @ + 1]
    /\ pc' = "copy_out"
    /\ i' = 1
    /\ idx' = 0
    /\ UNCHANGED <<model, max_batch_size, engine_, buffers_, dmem, nextAddr, log,
                   exit_status, batch_size, inputs, outputs, exec_ok, touched,
                   ub, ref>>

\* One iteration of the "copy output to host" loop.
copy_output_to_host ==
    /\ pc = "copy_out"
    /\ i <= Len(buffers_)
    /\ IF ~bindingIsInput(engine_, i)
       THEN LET n == SliceRows(batch_size)
                rows == buffers_[i].shape[1]
                u == CopyUB(outputs, n, rows)
            IN  /\ outputs' = IF idx < Len(outputs)
                              THEN [outputs EXCEPT ![idx + 1] =
                                        CopyToHost(@, dmem[i], n)]
                              ELSE outputs
                /\ touched' = touched \cup RowsTouched(i, n, rows)
                /\ ub' = ub \cup u
                /\ idx' = NextIdx(idx)
                /\ calls' = [calls EXCEPT !.d2h = @ + 1]
                /\ pc' \in Outcomes(u, "copy_out")
       ELSE UNCHANGED <<outputs, touched, ub, idx, calls, pc>>
    /\ i' = i + 1
    /\ UNCHANGED <<model, max_batch_size, engine_, buffers_, dmem, nextAddr, log,
                   exit_status, batch_size, inputs, live, exec_ok, ref>>

\* The invoke met its preconditions and its execute succeeded.
CleanInvoke ==
    /\ ub = {}
    /\ exec_ok
    /\ Len(inputs) = NbInputs(engine_)
    /\ Len(outputs) = NbOutputs(engine_)

\* What ref remembers of an invoke; between: an invoke of a larger batch size
\* has returned since.
ThisInvoke ==
    [batch |-> batch_size, inputs |-> inputs, outputs |-> outputs,
     between |-> FALSE]

\* operator() returns. An invoke that ran into undefined behaviour and did
\* not crash returns to a process whose state the language no longer
\* defines: the model does not follow it further. (History: one clean invoke
\* may be remembered in ref.)
return ==
    /\ pc = "copy_out"
    /\ i > Len(buffers_)
    /\ pc' = IF ub = {} THEN "returned" ELSE "returned:undefined"
    /\ \/ /\ ref = <<>>
          /\ ref' = ref
       \/ /\ ref = <<>>
          /\ CleanInvoke
          /\ ref' = <<ThisInvoke>>
       \/ /\ ref # <<>>
          /\ ref' = <<[ref[1] EXCEPT !.between = @ \/ batch_size > ref[1].batch]>>
    /\ UNCHANGED <<model, max_batch_size, engine_, buffers_, dmem, nextAddr, log,
                   exit_status, i, idx, live, invokeVars>>

\* ~uff_runner_impl(): the members, buffers_ and engine_ among them, are
\* destroyed with the Runner.
destructor ==
    /\ pc \in {"idle", "returned"}
    /\ pc' = "destroyed"
    /\ buffers_' = <<>>
    /\ dmem' = <<>>
    /\ engine_' = NullEngine
    /\ UNCHANGED <<model, max_batch_size, nextAddr, log, exit_status, i, idx,
                   live, invokeVars, ref>>

Next ==
    \/ create_engine
    \/ createBuffers_
    \/ ctor_return
    \/ call
    \/ copy_input_from_host
    \/ createExecutionContext
    \/ execute
    \/ context_destroy
    \/ copy_output_to_host
    \/ return
    \/ destructor

Spec == Init /\ [][Next]_vars

(***************************************************************************)
(* Vocabulary of the properties.                                           *)
(***************************************************************************)
\* The constructor has returned and the Runner has not been destroyed.
Constructed ==
    pc \in {"idle", "copy_in", "execute", "destroy", "copy_out", "returned",
            "returned:undefined", "abort:batch_size", "crash"}

\* operator() has been entered on the current arguments.
Called == Constructed /\ pc # "idle"

\* The steps between the entry of operator() and its return.
Running == pc \in {"copy_in", "execute", "destroy", "copy_out"}

PointerListsMatch ==
    /\ Len(inputs) = NbInputs(engine_)
    /\ Len(outputs) = NbOutputs(engine_)

InputBinding(j) == NthBinding(engine_, TRUE, j, 1)
OutputBinding(k) == NthBinding(engine_, FALSE, k, 1)

BuildFails == ~model.parses \/ ~model.builds

ValidBatch == 1 <= batch_size /\ batch_size <= max_batch_size

\* The preconditions of operator(), met without undefined behaviour so far.
Preconditions == PointerListsMatch /\ batch_size <= max_batch_size /\ ub = {}

\* The calls of an invoke that ran all three blocks.
FullCycle ==
    [h2d |-> NbInputs(engine_), create |-> 1, execute |-> 1, destroy |-> 1,
     d2h |-> NbOutputs(engine_)]

HasUnsupportedBinding ==
    \E k \in 1..Len(engine_) : engine_[k].dtype \notin {"kFLOAT", "kHALF", "kINT8"}

(***************************************************************************)
(* C1: an invoke with 1 <= batch_size <= max_batch_size reads and writes   *)
(* only rows [0, batch_size) of every device buffer: every row it touches  *)
(* lies below batch_size, and no step of it (the execute step included)    *)
(* changes a row in [batch_size, max_batch_size).                          *)
(***************************************************************************)
C1_InvokeTouchesOnlyBatchRows ==
    /\ [](Called /\ ValidBatch => \A t \in touched : t[2] <= batch_size)
    /\ [][Running /\ ValidBatch =>
            \A k \in 1..Len(dmem) : \A r \in (batch_size + 1)..max_batch_size :
                dmem'[k][r] = dmem[k][r]]_vars

\* An invoke of fewer rows than the buffers hold has returned, and a row
\* beyond its batch still holds what an earlier invoke's execute wrote there.
C1_Witness ==
    /\ pc = "returned"
    /\ ValidBatch
    /\ exec_ok
    /\ batch_size < max_batch_size
    /\ \E k \in 1..Len(dmem) :
          /\ ~bindingIsInput(engine_, k)
          /\ dmem[k][max_batch_size] \in Data
          /\ touched # {}

(***************************************************************************)
(* C2: an invoke with batch_size = max_batch_size runs the full copy-in /  *)
(* execute / copy-out cycle; an invoke with batch_size = max_batch_size+1  *)
(* fails the assert before any copy or execute.                            *)
(***************************************************************************)
C2_BatchSizeBoundary ==
    /\ (Called /\ batch_size = max_batch_size + 1) =>
          /\ pc = "abort:batch_size"
          /\ calls = NoCalls
          /\ touched = {}
          /\ live = 0
          /\ \A k \in 1..Len(outputs) : \A r \in 1..Len(outputs[k]) :
                outputs[k][r] = Indeterminate
    /\ (Called /\ batch_size = max_batch_size) => pc # "abort:batch_size"
    /\ (Called /\ batch_size = max_batch_size /\ PointerListsMatch) =>
          pc \notin {"crash", "returned:undefined"}
    /\ (pc = "returned" /\ batch_size = max_batch_size) => calls = FullCycle

\* The invoke with one row too many is aborted, after an invoke of exactly
\* max_batch_size rows ran its full cycle on the same Runner.
C2_Witness ==
    /\ pc = "abort:batch_size"
    /\ batch_size = max_batch_size + 1
    /\ ref # <<>>
    /\ ref[1].batch = max_batch_size

(***************************************************************************)
(* C3: an invoke with batch_size = 0 or a negative batch_size is a fatal   *)
(* caller-contract violation: it performs no copy and no execute and does  *)
(* not return to its caller.                                               *)
(***************************************************************************)
C3_NonPositiveBatchIsFatal ==
    (Called /\ batch_size <= 0) =>
        /\ calls = NoCalls
        /\ pc \notin {"returned", "returned:undefined"}

(***************************************************************************)
(* C4: an invoke whose inputs or outputs list does not hold exactly one    *)
(* host pointer per binding is caught by an assertion (it does not return  *)
(* to its caller); the invoke never indexes a pointer list past its end.   *)
(***************************************************************************)
C4_PointerCountMismatchIsAsserted ==
    /\ (Called /\ ~PointerListsMatch) =>
          pc \notin {"returned", "returned:undefined"}
    /\ "pointer list indexed past its end" \notin ub

(***************************************************************************)
(* C5: from the end of construction until the Runner is destroyed there is *)
(* one device buffer per binding, buffer k of max_batch_size rows and of   *)
(* max_batch_size * volume * elementSize bytes, and no step changes a      *)
(* buffer's address or shape or allocates device memory.                   *)
(***************************************************************************)
C5_BuffersAllocatedOnce ==
    /\ [](Constructed =>
            /\ Len(buffers_) = Len(engine_)
            /\ \A k \in 1..Len(buffers_) :
                  /\ buffers_[k].shape[1] = max_batch_size
                  /\ Capacity(buffers_[k]) =
                        max_batch_size * volume(engine_[k].dims)
                                       * elementSize(engine_[k].dtype)
                  /\ Len(dmem[k]) = max_batch_size
                  /\ \A j \in 1..Len(buffers_) :
                        j # k => buffers_[j].data # buffers_[k].data)
    /\ [][Constructed /\ pc' # "destroyed" =>
            buffers_' = buffers_ /\ nextAddr' = nextAddr]_vars

\* Two different invokes have returned on a Runner with two buffers.
C5_Witness ==
    /\ pc = "returned"
    /\ Len(buffers_) >= 2
    /\ ref # <<>>
    /\ ref[1].between
    /\ batch_size # ref[1].batch

(***************************************************************************)
(* C6: when the parser or the builder produces no engine, a diagnostic is  *)
(* logged and the process exits with a non-zero status; no device buffer   *)
(* was allocated, no Runner is returned and no invoke runs.                *)
(***************************************************************************)
C6_BuildFailureExits ==
    /\ BuildFails =>
          /\ pc \in {"create_engine", "exit"}
          /\ buffers_ = <<>>
          /\ dmem = <<>>
          /\ nextAddr = 1
          /\ calls = NoCalls
    /\ pc = "exit" =>
          /\ BuildFails
          /\ Len(exit_status) = 1
          /\ exit_status[1] # 0
          /\ log # <<>>

\* The model file did not parse and the process has exited.
C6_Witness ==
    /\ pc = "exit"
    /\ ~model.parses
    /\ Len(log) = 2

(***************************************************************************)
(* C7: construction aborts whenever a binding's element type is outside    *)
(* {kFLOAT, kHALF, kINT8}; every constructed Runner has, for every         *)
(* binding, an element size in {1, 2, 4} and a row size computed from it.  *)
(***************************************************************************)
C7_UnsupportedTypeAbortsConstruction ==
    /\ HasUnsupportedBinding => pc \in {"createBuffers_", "abort:elementSize"}
    /\ HasUnsupportedBinding =>
          \A k \in 1..Len(buffers_) :
              engine_[k].dtype \in {"kFLOAT", "kHALF", "kINT8"}
    /\ pc = "abort:elementSize" => HasUnsupportedBinding
    /\ Constructed =>
          \A k \in 1..Len(buffers_) :
              \E sz \in {1, 2, 4} :
                  /\ elementSize(engine_[k].dtype) = sz
                  /\ buffers_[k].shape[2] = volume(engine_[k].dims) * sz

\* Construction was aborted at a binding of unsupported type, after a buffer
\* had been allocated for an earlier binding.
C7_Witness ==
    /\ pc = "abort:elementSize"
    /\ Len(buffers_) >= 1
    /\ engine_[Len(buffers_) + 1].dtype = "kINT32"

(***************************************************************************)
(* C8: for an invoke that meets the preconditions, execute runs once, after*)
(* all input copies and before all output copies, over device buffers whose*)
(* rows [0, batch_size) of the j-th input binding equal the j-th host      *)
(* input; on return the k-th host output holds rows [0, batch_size) of the *)
(* device buffer of the k-th output binding as execute left it.            *)
(***************************************************************************)
C8_OutputsAreThisInvokesResult ==
    /\ (pc = "execute" /\ Preconditions) =>
          /\ calls.h2d = NbInputs(engine_)
          /\ calls.execute = 0
          /\ calls.d2h = 0
          /\ \A j \in 1..NbInputs(engine_) : \A r \in 1..batch_size :
                dmem[InputBinding(j)][r] = inputs[j][r]
    /\ (pc = "copy_out" /\ Preconditions) =>
          /\ calls.h2d = NbInputs(engine_)
          /\ calls.execute = 1
    /\ (pc = "returned" /\ Preconditions) =>
          /\ calls = FullCycle
          /\ \A k \in 1..NbOutputs(engine_) : \A r \in 1..batch_size :
                /\ outputs[k][r] = dmem[OutputBinding(k)][r]
                /\ exec_ok =>
                      outputs[k][r] =
                          EngineCompute(engine_, dmem, r, OutputBinding(k))
          /\ \A j \in 1..NbInputs(engine_) : \A r \in 1..batch_size :
                dmem[InputBinding(j)][r] = inputs[j][r]

\* A full-batch invoke has returned on an engine whose first binding is an
\* output and whose second is an input (so idx differs from i).
C8_Witness ==
    /\ pc = "returned"
    /\ CleanInvoke
    /\ batch_size = max_batch_size
    /\ batch_size >= 2
    /\ Len(engine_) >= 2
    /\ ~bindingIsInput(engine_, 1)
    /\ bindingIsInput(engine_, 2)
    /\ outputs[1][1] \in Data

(***************************************************************************)
(* C9: two clean invokes on the same Runner with identical host inputs and *)
(* the same batch_size return identical host outputs, whatever ran between *)
(* them.                                                                   *)
(***************************************************************************)
C9_SameInputsSameOutputs ==
    (/\ pc = "returned"
     /\ CleanInvoke
     /\ ref # <<>>
     /\ ref[1].batch = batch_size
     /\ ref[1].inputs = inputs) => outputs = ref[1].outputs

\* The remembered invoke, then an invoke of a larger batch, then an invoke
\* with the remembered inputs and batch size, on an engine with an input and
\* an output, with the larger invoke's rows still in the device buffers.
C9_Witness ==
    /\ pc = "returned"
    /\ CleanInvoke
    /\ ref # <<>>
    /\ ref[1].between
    /\ ref[1].batch = batch_size
    /\ ref[1].inputs = inputs
    /\ batch_size >= 1
    /\ NbInputs(engine_) >= 1
    /\ NbOutputs(engine_) >= 1
    /\ \E k \in 1..Len(dmem) : dmem[k][batch_size + 1] \in Data

(***************************************************************************)
(* C10: an invoke that reaches the execute block creates one execution     *)
(* context, calls execute on it once and destroys it before the copy-out   *)
(* step, whether execute succeeds or fails; at most one context is live at *)
(* any time and none outside the execute block.                            *)
(***************************************************************************)
C10_OneContextPerInvoke ==
    /\ live \in {0, 1}
    /\ live = 1 <=> pc \in {"execute", "destroy"}
    /\ pc = "execute" =>
          calls.create = 1 /\ calls.execute = 0 /\ calls.destroy = 0
    /\ pc = "destroy" =>
          calls.create = 1 /\ calls.execute = 1 /\ calls.destroy = 0
    /\ pc \in {"copy_out", "returned", "returned:undefined"} =>
          calls.create = 1 /\ calls.execute = 1 /\ calls.destroy = 1
    /\ pc = "copy_in" => calls.create = 0

\* An invoke whose execute failed has returned, after an earlier invoke.
C10_Witness ==
    /\ pc = "returned"
    /\ ~exec_ok
    /\ ref # <<>>
    /\ live = 0

====
